---- MODULE Spec2Model ----
(***************************************************************************)
(* StreetFlix: playback orchestrator, transition engine, route manager and *)
(* pre-cache manager, modelled as one state machine over the JavaScript    *)
(* event loop.                                                             *)
(*                                                                         *)
(* Scheduling model.  The page runs one macrotask at a time (a message or  *)
(* key handler, a timer callback, a load callback) and drains the          *)
(* microtask queue after it.  A macrotask is an action guarded by          *)
(* micro = <<>>; the continuation of an `await` on an already settled      *)
(* promise is an entry of the FIFO queue `micro`, run by a Micro* action.  *)
(*                                                                         *)
(* Geometry.  A GeoPoint is modelled on the meridian lng = 0 as its        *)
(* latitude in micro-degrees (an integer); distances are in micrometres.   *)
(***************************************************************************)
EXTENDS Integers, Sequences, FiniteSets, Bags, TLC

VARIABLES
  waypoints,       \* RouteManager.waypoints, each latitude to the micro-degree
  waypointKeys,    \* CacheManager.getPointKey(w) of each waypoint w: what its
                   \* double gives beyond the micro-degree
  currentIndex,    \* RouteManager.currentIndex (0-based)
  isPlaying,       \* StreetFlixController.isPlaying
  isPaused,        \* StreetFlixController.isPaused
  playbackTimer,   \* StreetFlixController.playbackTimer: "null", or the handle of a
                   \* tick that is "pending" or has "fired"
  orphanTicks,     \* pending setTimeout(advanceFrame) ticks playbackTimer does not hold
  autoHeading,     \* StreetFlixController.settings.autoHeading
  speed,           \* StreetFlixController.speed
  isTransitioning, \* TransitionEngine.isTransitioning
  enabled,         \* TransitionEngine.settings.enabled
  overlayOpacity,  \* TransitionEngine.overlay.style.opacity
  imageOpacity,    \* TransitionEngine.imageOverlay.style.opacity
  flights,         \* transitionTo activations suspended on a timer or on waitForLoad
  flashes,         \* flashTransition activations suspended on a timer
  viewerPos,       \* last position commanded to the viewer (NoPos = none yet)
  cached,          \* CacheManager.cached, in insertion order
  loading,         \* CacheManager.loading
  fetches,         \* bag of the precachePoint activations that are suspended
  micro,           \* the microtask queue: continuations of settled awaits
  out              \* what the last step emitted: viewer commands, results, reports

routeVars  == <<waypoints, waypointKeys, currentIndex>>
playVars   == <<isPlaying, isPaused, playbackTimer, orphanTicks, autoHeading, speed>>
engineVars == <<isTransitioning, enabled, overlayOpacity, imageOpacity, flights,
               flashes>>
cacheVars  == <<cached, loading, fetches>>
vars == <<routeVars, playVars, engineVars, viewerPos, cacheVars, micro, out>>

----------------------------------------------------------------------------
(* Bounds of the model. *)

\* The longest input route of playback has MaxSpan + 2 points.
MaxSpan == 1
\* The longest route of an undisturbed run, in spacings.
MaxRunSpan == 3
\* The longest route whose points are cached, in spacings.
MaxCacheSpan == 2
\* The longest input segment of the route operations, in spacings.
MaxRouteSpan == 3
\* Most advance-cycle chains (pending ticks plus suspended cycles) play() adds to;
\* also the most transitionTo activations kept suspended at once.
MaxChains == 2

----------------------------------------------------------------------------
(* Program constants. *)

\* A value that is not a number: charCodeAt past the end of a string, a timer
\* delay that is a function or an object (no char code or delay is negative)
NaN == 0 - 1
NoPos == 0 - 1
NoHeading == 0 - 1
\* R * pi / 180 * 1e-6 m, in micrometres, for R = 6371000 m.
UmPerMicroDeg == 111195
\* targetSpacing, in metres.
TargetSpacing == 20
UmPerMeter == 1000000
\* CacheManager.cacheAhead
CacheAhead == 5

Abs(x) == IF x < 0 THEN 0 - x ELSE x
Max(a, b) == IF a > b THEN a ELSE b
Min(a, b) == IF a < b THEN a ELSE b
RemoveAt(s, i) == SubSeq(s, 1, i - 1) \o SubSeq(s, i + 1, Len(s))
Ev(e, a) == [ev |-> e, arg |-> a]

----------------------------------------------------------------------------
(* GeoUtils *)

\* Haversine distance of two points of one meridian: R * |dLat|, in micrometres.
calculateDistance(from, to) == Abs(to - from) * UmPerMicroDeg

\* Bearing along a meridian: 0 (north, also for equal points), 180 (south).
calculateHeading(from, to) == IF to >= from THEN 0 ELSE 180

\* from + (to - from) * t for t = j / steps, to the micro-degree below (what the
\* double holds beyond it is in interpolatedLat and interpolateKey).
interpolate(from, to, j, steps) == from + ((to - from) * j) \div steps

----------------------------------------------------------------------------
(* RouteManager *)

\* Math.ceil(distance / targetSpacing)
StepsOfFloor(distance) == distance \div (TargetSpacing * UmPerMeter)
StepsOf(distance) ==
  (distance + TargetSpacing * UmPerMeter - 1) \div (TargetSpacing * UmPerMeter)

\* One segment of preprocessRoute: the start point and the interpolated points.
Segment(start, end) ==
  LET distance == calculateDistance(start, end)
      steps == StepsOf(distance)
  IN  IF distance > TargetSpacing * UmPerMeter
      THEN <<start>> \o [j \in 1..(steps - 1) |-> interpolate(start, end, j, steps)]
      ELSE <<start>>

RECURSIVE Segments(_, _)
Segments(points, i) ==
  IF i >= Len(points) THEN <<>>
  ELSE Segment(points[i], points[i + 1]) \o Segments(points, i + 1)

preprocessRoute(points) ==
  IF Len(points) < 2 THEN points
  ELSE Segments(points, 1) \o <<points[Len(points)]>>

hasRoute == Len(waypoints) > 1

\* getNextWaypoint() is not null, with the cursor at idx
HasNext(idx) == idx + 1 < Len(waypoints)
getNextWaypoint(idx) == waypoints[idx + 2]
\* getCurrentWaypoint() is not null, with the cursor at idx
HasCurrent(idx) == idx < Len(waypoints)
getCurrentWaypoint(idx) == waypoints[idx + 1]

getHeadingToNext(idx) ==
  IF HasCurrent(idx) /\ HasNext(idx)
  THEN calculateHeading(getCurrentWaypoint(idx), getNextWaypoint(idx))
  ELSE 0

\* advance(): the cursor after the call
advanceUnclamped(idx) == idx + 1
advanceStay(idx) == idx
advance(idx) == IF idx < Len(waypoints) - 1 THEN idx + 1 ELSE idx

\* jumpTo(index): the cursor after the call
jumpToAny(idx, index) == index
jumpTo(idx, index) == IF index >= 0 /\ index < Len(waypoints) THEN index ELSE idx

\* getProgress(), floored to a whole percent
getProgressOfLength(idx) ==
  IF Len(waypoints) <= 1 THEN 0 ELSE (idx * 100) \div Len(waypoints)
getProgress(idx) ==
  IF Len(waypoints) <= 1 THEN 0 ELSE (idx * 100) \div (Len(waypoints) - 1)

----------------------------------------------------------------------------
(* IEEE 754 doubles: the arithmetic of GeoUtils.interpolate and toFixed.  A   *)
(* positive double is [n, e], the value n * 2^e with n of at most 53 bits (or *)
(* 2^53); n is a natural number kept as its base-1024 digits, lowest first.   *)

Base == 1024

RECURSIVE bigOf(_)
bigOf(n) == IF n = 0 THEN <<>> ELSE <<n % Base>> \o bigOf(n \div Base)

RECURSIVE trim(_)
trim(x) == IF x # <<>> /\ x[Len(x)] = 0 THEN trim(SubSeq(x, 1, Len(x) - 1)) ELSE x

limb(x, i) == IF i <= Len(x) THEN x[i] ELSE 0

RECURSIVE addFrom(_, _, _, _)
addFrom(x, y, i, carry) ==
  IF i > Len(x) /\ i > Len(y) THEN bigOf(carry)
  ELSE LET s == limb(x, i) + limb(y, i) + carry
       IN  <<s % Base>> \o addFrom(x, y, i + 1, s \div Base)
bigAdd(x, y) == addFrom(x, y, 1, 0)

RECURSIVE subFrom(_, _, _, _)
subFrom(x, y, i, borrow) ==
  IF i > Len(x) THEN <<>>
  ELSE LET s == limb(x, i) - limb(y, i) - borrow
       IN  <<s % Base>> \o subFrom(x, y, i + 1, IF s < 0 THEN 1 ELSE 0)
bigSub(x, y) == trim(subFrom(x, y, 1, 0))

RECURSIVE mulSmallFrom(_, _, _, _)
mulSmallFrom(x, k, i, carry) ==
  IF i > Len(x) THEN bigOf(carry)
  ELSE LET s == x[i] * k + carry
       IN  <<s % Base>> \o mulSmallFrom(x, k, i + 1, s \div Base)
bigMulSmall(x, k) == trim(mulSmallFrom(x, k, 1, 0))

RECURSIVE mulFrom(_, _, _)
mulFrom(x, y, i) ==
  IF i > Len(y) THEN <<>>
  ELSE bigAdd(bigMulSmall(x, y[i]), <<0>> \o mulFrom(x, y, i + 1))
bigMul(x, y) == trim(mulFrom(x, y, 1))

RECURSIVE divSmallFrom(_, _, _, _)
divSmallFrom(x, k, i, rem) ==
  IF i = 0 THEN [q |-> <<>>, r |-> rem]
  ELSE LET cur == rem * Base + x[i]
           rest == divSmallFrom(x, k, i - 1, cur % k)
       IN  [q |-> rest.q \o <<cur \div k>>, r |-> rest.r]
bigDivSmall(x, k) ==
  LET d == divSmallFrom(x, k, Len(x), 0) IN [q |-> trim(d.q), r |-> d.r]

shiftLeft(x, bits) ==
  IF x = <<>> THEN <<>>
  ELSE [i \in 1..(bits \div 10) |-> 0] \o bigMulSmall(x, 2 ^ (bits % 10))
shiftRight(x, bits) ==
  IF bits \div 10 >= Len(x) THEN <<>>
  ELSE bigDivSmall(SubSeq(x, bits \div 10 + 1, Len(x)), 2 ^ (bits % 10)).q

RECURSIVE bitsOf(_)
bitsOf(n) == IF n = 0 THEN 0 ELSE bitsOf(n \div 2) + 1
bitLen(x) == IF x = <<>> THEN 0 ELSE 10 * (Len(x) - 1) + bitsOf(x[Len(x)])

RECURSIVE notBelowFrom(_, _, _)
notBelowFrom(x, y, i) ==
  IF i = 0 THEN TRUE
  ELSE IF x[i] # y[i] THEN x[i] > y[i]
  ELSE notBelowFrom(x, y, i - 1)
bigNotBelow(x, y) ==
  IF Len(x) # Len(y) THEN Len(x) > Len(y) ELSE notBelowFrom(x, y, Len(x))

round53(n, e, sticky) ==
  LET d == bitLen(n) - 53
      q2 == shiftRight(n, d - 1)
      q == shiftRight(q2, 1)
      inexact == sticky \/ shiftLeft(q2, d - 1) # n
      up == limb(q2, 1) % 2 = 1 /\ (inexact \/ limb(q, 1) % 2 = 1)
  IN  IF d <= 0 THEN [n |-> n, e |-> e]
      ELSE [n |-> IF up THEN bigAdd(q, <<1>>) ELSE q, e |-> e + d]

doubleOf(p, q) ==
  LET d == bigDivSmall(shiftLeft(bigOf(p), 80), q)
  IN  IF p = 0 THEN [n |-> <<>>, e |-> 0] ELSE round53(d.q, 0 - 80, d.r # 0)

doubleMul(x, y) == round53(bigMul(x.n, y.n), x.e + y.e, FALSE)
doubleAdd(x, y) ==
  LET e == Min(x.e, y.e)
  IN  round53(bigAdd(shiftLeft(x.n, x.e - e), shiftLeft(y.n, y.e - e)), e, FALSE)
doubleSub(x, y) ==
  LET e == Min(x.e, y.e)
  IN  round53(bigSub(shiftLeft(x.n, x.e - e), shiftLeft(y.n, y.e - e)), e, FALSE)

\* x >= c * 1e-6
doubleNotBelowMicro(x, c) ==
  bigNotBelow(bigMulSmall(x.n, 1000000), shiftLeft(bigOf(c), 0 - x.e))

----------------------------------------------------------------------------
(* CacheManager *)

\* getPointKey of a point whose latitude is the double nearest to point * 1e-6:
\* lat.toFixed(5), in units of 1e-5 degree. toFixed rounds the exact binary value
\* of the double, so a latitude halfway between two keys goes where its double
\* lies. The longitude is 0 on the modelled meridian; points are not negative.
getPointKey(point) ==
  IF point % 10 # 5 THEN (point + 5) \div 10
  ELSE IF doubleNotBelowMicro(doubleOf(point, 1000000), point) THEN point \div 10 + 1
  ELSE point \div 10

\* The double GeoUtils.interpolate computes: from.lat + (to.lat - from.lat) * t,
\* for t the double j / steps, each operation rounded.
interpolatedLat(from, to, j, steps) ==
  LET a == doubleOf(from, 1000000)
      b == doubleOf(to, 1000000)
      t == doubleOf(j, steps)
  IN  IF to >= from THEN doubleAdd(a, doubleMul(doubleSub(b, a), t))
      ELSE doubleSub(a, doubleMul(doubleSub(a, b), t))

\* getPointKey of the point interpolate(from, to, j / steps) returns. Away from
\* the middle between two keys the exact value from + (to - from) * j / steps
\* decides (the rounding error is far below 1 / steps micro-degree); at the middle
\* the computed double decides.
interpolateKey(from, to, j, steps) ==
  LET whole == from + ((to - from) * j) \div steps
      rem == ((to - from) * j) % steps
  IN  IF rem = 0 /\ whole % 10 = 5
      THEN IF doubleNotBelowMicro(interpolatedLat(from, to, j, steps), whole)
           THEN whole \div 10 + 1 ELSE whole \div 10
      ELSE (whole + 5) \div 10

\* The keys of the waypoints preprocessRoute makes of `points`, one per waypoint.
SegmentKeys(start, end) ==
  LET distance == calculateDistance(start, end)
      steps == StepsOf(distance)
  IN  IF distance > TargetSpacing * UmPerMeter
      THEN <<getPointKey(start)>>
           \o [j \in 1..(steps - 1) |-> interpolateKey(start, end, j, steps)]
      ELSE <<getPointKey(start)>>

RECURSIVE SegmentsKeys(_, _)
SegmentsKeys(points, i) ==
  IF i >= Len(points) THEN <<>>
  ELSE SegmentKeys(points[i], points[i + 1]) \o SegmentsKeys(points, i + 1)

preprocessKeys(points) ==
  IF Len(points) < 2 THEN [i \in 1..Len(points) |-> getPointKey(points[i])]
  ELSE SegmentsKeys(points, 1) \o <<getPointKey(points[Len(points)])>>

Range(s) == {s[i] : i \in 1..Len(s)}

\* getPointKey of each point of waypoints.slice(currentIndex, currentIndex + cacheAhead)
UpcomingKeys(idx) ==
  Range(SubSeq(waypointKeys, idx + 1, Min(Len(waypointKeys), idx + CacheAhead)))

\* The keys precacheRoute starts a fetch for: neither cached nor loading.
KeysToFetchUnmarked(idx) ==
  UpcomingKeys(idx) \ Range(cached)
KeysToFetch(idx) ==
  UpcomingKeys(idx) \ (Range(cached) \cup loading)

\* precacheRoute: each new key is marked loading as its precachePoint starts, up
\* to `await findNearestPanoId`.
precacheRoute(idx) ==
  /\ loading' = loading \cup KeysToFetch(idx)
  /\ fetches' = fetches (+) SetToBag({[key |-> k, pc |-> "resolve"] : k \in KeysToFetch(idx)})
  /\ UNCHANGED cached

----------------------------------------------------------------------------
(* The routes setRoute is given *)

\* Playback: empty, one point, and MaxSpan + 2 points 0.11 m apart. The points of
\* a route share one cache key (routes over several keys and routes that are
\* interpolated: RunRoutes, CacheRoutes, RouteInputs).
InputRoutes == {<<>>, <<0>>, [i \in 1..(MaxSpan + 2) |-> i - 1]}

\* An undisturbed run: two close points, two points a spacing apart (interpolated
\* to 3 waypoints over 3 cache keys), and 4 .. MaxRunSpan + 2 points 0.11 m apart
\* (one cache key).
RunRoutes ==
  {<<0, 3>>, <<0, 180>>} \cup {[i \in 1..(k + 2) |-> i - 1] : k \in 2..MaxRunSpan}

\* The cache: two close points, and two points MaxCacheSpan spacings apart.
CacheRoutes == {<<0, 3>>, <<0, 180 * MaxCacheSpan>>}

\* The route operations: empty, one point, two close points, three points, and
\* two points 1 .. MaxRouteSpan spacings apart, northward and southward.
RouteInputs ==
  {<<>>, <<0>>, <<0, 3>>, <<0, 200, 100>>}
  \cup {<<0, 180 * k>> : k \in 1..MaxRouteSpan}
  \cup {<<180 * k, 0>> : k \in 1..MaxRouteSpan}

\* The speed handlers: two points 0.11 m apart.
SpeedRoutes == {<<0, 1>>}

\* preprocessKeys of each of these routes, computed once.
InputRouteKeys ==
  {<<points, preprocessKeys(points)>> :
     points \in InputRoutes \cup RunRoutes \cup CacheRoutes \cup RouteInputs
                \cup SpeedRoutes}

\* getPointKey of each waypoint of preprocessRoute(points)
routeKeys(points) ==
  IF \E e \in InputRouteKeys : e[1] = points
  THEN (CHOOSE e \in InputRouteKeys : e[1] = points)[2]
  ELSE preprocessKeys(points)

----------------------------------------------------------------------------
(* Initial state: the controller after init() *)

Init ==
  /\ waypoints = <<>>
  /\ waypointKeys = <<>>
  /\ currentIndex = 0
  /\ isPlaying = FALSE
  /\ isPaused = FALSE
  /\ playbackTimer = "null"
  /\ orphanTicks = 0
  /\ autoHeading = TRUE
  /\ speed = "cycling"
  /\ isTransitioning = FALSE
  /\ enabled = TRUE
  /\ overlayOpacity = "0"
  /\ imageOpacity = "0"
  /\ flights = <<>>
  /\ flashes = <<>>
  /\ viewerPos = NoPos
  /\ cached = <<>>
  /\ loading = {}
  /\ fetches = EmptyBag
  /\ micro = <<>>
  /\ out = <<>>

----------------------------------------------------------------------------
(* Event loop *)

\* A macrotask runs only when the microtask queue is drained.
LoopIdle == micro = <<>>

Task(op, caller, target, heading, result) ==
  [op |-> op, caller |-> caller, target |-> target, heading |-> heading,
   result |-> result]

\* The continuation of the caller's `await transitionTo(...)`: advanceFrame awaits
\* the result, skip drops the promise.
Settle(caller, result) ==
  IF caller = "advance"
  THEN <<Task("resume", caller, NoPos, NoHeading, result)>>
  ELSE <<>>

\* Advance cycles that are suspended in `await transitionTo(...)`.
Cycles ==
  Cardinality({i \in 1..Len(flights) : flights[i].caller = "advance"})
  + Cardinality({i \in 1..Len(micro) : micro[i].caller = "advance"})

\* The setTimeout(advanceFrame) callbacks that are pending.
PendingTicks == orphanTicks + (IF playbackTimer = "pending" THEN 1 ELSE 0)

\* Advance-cycle chains: pending ticks plus suspended cycles.
Chains == PendingTicks + Cycles

----------------------------------------------------------------------------
(* TransitionEngine *)

isBusy == isTransitioning

\* transitionTo's single-flight test
BusyNever == FALSE
Busy == isTransitioning

\* The catch block: the opacity both overlays get
catchOpacityKept(opacity) == opacity
catchOpacity(opacity) == "0"

\* The finally block: the value isTransitioning gets
finallyBusyKept == isTransitioning
finallyBusy == FALSE

\* String(this.settings.fadeOpacity): the opacity of the fallback overlay
fadeOpacityNone == "0"
fadeOpacity == "0.8"

\* transitionTo from its call to its first suspension.
transitionTo(caller, target, heading) ==
  IF Busy
  THEN \* rejected: return false
       /\ micro' = micro \o Settle(caller, "false")
       /\ out' = <<Ev("reject", 0)>>
       /\ UNCHANGED <<engineVars, viewerPos>>
  ELSE IF ~enabled
  THEN \* direct move: setPosition runs in the call itself
       /\ \E ok \in BOOLEAN :
            IF ok
            THEN /\ viewerPos' = target
                 /\ micro' = Append(micro, Task("pov", caller, target, heading, ""))
                 /\ out' = <<Ev("setPosition", target)>>
            ELSE /\ micro' = micro \o Settle(caller, "throw")
                 /\ out' = <<Ev("throw", 0)>>
                 /\ UNCHANGED viewerPos
       /\ UNCHANGED engineVars
  ELSE \* enter InProgress, capture the frame, reveal an overlay, await delay(50)
       /\ Len(flights) < MaxChains
       /\ isTransitioning' = TRUE
       /\ \E captured \in BOOLEAN :
            IF captured
            THEN imageOpacity' = "1" /\ UNCHANGED overlayOpacity
            ELSE overlayOpacity' = fadeOpacity /\ UNCHANGED imageOpacity
       /\ flights' = Append(flights,
            [caller |-> caller, pc |-> "delay50", target |-> target,
             heading |-> heading, load |-> ""])
       /\ out' = <<Ev("reveal", 0)>>
       /\ UNCHANGED <<enabled, flashes, viewerPos, micro>>

\* delay(50) elapsed: setPosition, setPov, then waitForLoad is started.
\* `fail` names the step that throws.
FlightMove(i) ==
  /\ LoopIdle
  /\ i \in 1..Len(flights)
  /\ flights[i].pc = "delay50"
  /\ LET f == flights[i] IN
     \E fail \in {"none", "setPosition", "setPov", "waitForLoad"} :
       /\ fail = "setPov" => f.heading # NoHeading
       /\ LET posDone == fail # "setPosition"
              povDone == posDone /\ f.heading # NoHeading /\ fail # "setPov"
              cmds == (IF posDone THEN <<Ev("setPosition", f.target)>> ELSE <<>>)
                      \o (IF povDone THEN <<Ev("setPov", f.heading)>> ELSE <<>>)
          IN  /\ viewerPos' = IF posDone THEN f.target ELSE viewerPos
              /\ IF fail = "none"
                 THEN /\ flights' = [flights EXCEPT ![i].pc = "waitLoad"]
                      /\ out' = cmds
                      /\ UNCHANGED <<isTransitioning, overlayOpacity, imageOpacity,
                                     micro>>
                 ELSE /\ imageOpacity' = catchOpacity(imageOpacity)
                      /\ overlayOpacity' = catchOpacity(overlayOpacity)
                      /\ isTransitioning' = finallyBusy
                      /\ flights' = RemoveAt(flights, i)
                      /\ micro' = Settle(f.caller, "false")
                      /\ out' = cmds \o <<Ev("return", 0)>>
  /\ UNCHANGED <<routeVars, playVars, enabled, flashes, cacheVars>>

\* waitForLoad(2000) settles: true when the viewer reports OK, false on timeout.
FlightLoaded(i) ==
  /\ LoopIdle
  /\ i \in 1..Len(flights)
  /\ flights[i].pc = "waitLoad"
  /\ \E loaded \in BOOLEAN :
       /\ flights' = [flights EXCEPT ![i].pc = "delay100",
                                     ![i].load = IF loaded THEN "ok" ELSE "timeout"]
       /\ out' = <<Ev("loaded", IF loaded THEN 1 ELSE 0)>>
  /\ UNCHANGED <<routeVars, playVars, isTransitioning, enabled, flashes, overlayOpacity,
                 imageOpacity, viewerPos, cacheVars, micro>>

\* delay(100) elapsed: both overlays are faded out, then await delay(duration).
FlightRender(i) ==
  /\ LoopIdle
  /\ i \in 1..Len(flights)
  /\ flights[i].pc = "delay100"
  /\ imageOpacity' = "0"
  /\ overlayOpacity' = "0"
  /\ flights' = [flights EXCEPT ![i].pc = "fade"]
  /\ out' = <<Ev("hide", 0)>>
  /\ UNCHANGED <<routeVars, playVars, isTransitioning, enabled, flashes, viewerPos,
                 cacheVars, micro>>

\* What transitionTo returns after its last delay: the value waitForLoad gave
\* (load) is discarded.
returnAfterLoadOnly(load) == IF load = "ok" THEN "true" ELSE "false"
returnAfter(load) == "true"

\* delay(duration) elapsed: return true, through the finally block.
FlightDone(i) ==
  /\ LoopIdle
  /\ i \in 1..Len(flights)
  /\ flights[i].pc = "fade"
  /\ isTransitioning' = finallyBusy
  /\ flights' = RemoveAt(flights, i)
  /\ micro' = Settle(flights[i].caller, returnAfter(flights[i].load))
  /\ out' = <<Ev("return", IF returnAfter(flights[i].load) = "true" THEN 1 ELSE 0)>>
  /\ UNCHANGED <<routeVars, playVars, enabled, flashes, overlayOpacity, imageOpacity,
                 viewerPos, cacheVars>>

\* Direct move, after `await setPosition`: setPov if a heading was given, return true.
MicroPov ==
  /\ micro # <<>>
  /\ Head(micro).op = "pov"
  /\ LET t == Head(micro) IN
     IF t.heading # NoHeading
     THEN \E ok \in BOOLEAN :
            IF ok
            THEN /\ micro' = Tail(micro) \o Settle(t.caller, "true")
                 /\ out' = <<Ev("setPov", t.heading), Ev("return", 1)>>
            ELSE /\ micro' = Tail(micro) \o Settle(t.caller, "throw")
                 /\ out' = <<Ev("throw", 0)>>
     ELSE /\ micro' = Tail(micro) \o Settle(t.caller, "true")
          /\ out' = <<Ev("return", 1)>>
  /\ UNCHANGED <<routeVars, playVars, engineVars, viewerPos, cacheVars>>

\* TransitionEngine.updateSettings through StreetFlixController.updateSettings
UpdateSettings(smoothTransitions, auto) ==
  /\ LoopIdle
  /\ autoHeading' = auto
  /\ enabled' = smoothTransitions
  /\ out' = <<>>
  /\ UNCHANGED <<routeVars, isPlaying, isPaused, playbackTimer, orphanTicks, speed,
                 isTransitioning, overlayOpacity, imageOpacity, flights, flashes,
                 viewerPos, cacheVars, micro>>

----------------------------------------------------------------------------
(* StreetFlixController *)

\* stop(), with orph the ticks pending besides the one playbackTimer holds:
\* clearTimeout(playbackTimer) cancels the held tick if it is still pending.
stop(orph) ==
  /\ isPlaying' = FALSE
  /\ isPaused' = FALSE
  /\ playbackTimer' = "null"
  /\ orphanTicks' = orph
  /\ currentIndex' = 0
  /\ UNCHANGED <<waypoints, waypointKeys, waypointKeys>>

\* advanceFrame up to `await transitionTo`, past its Playing test; pt and orph are
\* the timer state when it is called.
advanceFrame(pt, orph) ==
  IF HasNext(currentIndex)
  THEN /\ transitionTo("advance", getNextWaypoint(currentIndex),
                       IF autoHeading THEN getHeadingToNext(currentIndex)
                       ELSE NoHeading)
       /\ isPlaying' = TRUE
       /\ isPaused' = FALSE
       /\ precacheRoute(currentIndex)
       /\ playbackTimer' = pt
       /\ orphanTicks' = orph
       /\ UNCHANGED <<routeVars, autoHeading, speed>>
  ELSE /\ stop(orph)
       /\ out' = <<>>
       /\ UNCHANGED <<autoHeading, speed, engineVars, viewerPos, cacheVars, micro>>

\* The tests that make play() return at once
PlayIgnoredNoRoute == ~hasRoute
PlayIgnored == ~hasRoute \/ isPlaying

Play ==
  /\ LoopIdle
  /\ IF PlayIgnored
     THEN /\ out' = IF ~hasRoute THEN <<Ev("warn", 0)>> ELSE <<>>
          /\ UNCHANGED <<routeVars, playVars, engineVars, viewerPos, cacheVars,
                         micro>>
     ELSE /\ Chains < MaxChains
          /\ advanceFrame(playbackTimer, orphanTicks)

\* The test that makes advanceFrame return at once, and schedule no tick
NotPlaying == ~isPlaying \/ isPaused

\* if (success)
SucceededAlways(result) == TRUE
Succeeded(result) == result = "true"

\* A scheduled tick fires, the one playbackTimer holds or another: advanceFrame
\* from its first line.
Tick(held) ==
  /\ LoopIdle
  /\ IF held THEN playbackTimer = "pending" ELSE orphanTicks > 0
  /\ LET pt == IF held THEN "fired" ELSE playbackTimer
         orph == IF held THEN orphanTicks ELSE orphanTicks - 1
     IN  IF NotPlaying
         THEN /\ playbackTimer' = pt
              /\ orphanTicks' = orph
              /\ out' = <<>>
              /\ UNCHANGED <<routeVars, isPlaying, isPaused, autoHeading, speed,
                             engineVars, viewerPos, cacheVars, micro>>
         ELSE advanceFrame(pt, orph)

\* The tick intervals of the speed profiles, in ms
speeds == [walking |-> 2500, cycling |-> 1200, driving |-> 600, flying |-> 250]

\* The property names every object inherits from Object.prototype.
InheritedNames ==
  {"constructor", "hasOwnProperty", "isPrototypeOf", "propertyIsEnumerable",
   "toLocaleString", "toString", "valueOf", "__proto__", "__defineGetter__",
   "__defineSetter__", "__lookupGetter__", "__lookupSetter__"}

\* this.speeds[this.speed] || this.speeds.cycling, as the delay setTimeout is
\* given. Indexing finds inherited properties too: a function (an object for
\* __proto__), truthy, so `||` keeps it, and as a delay it is not a number.
interval(s) ==
  IF s \in DOMAIN speeds THEN speeds[s]
  ELSE IF s \in InheritedNames THEN NaN
  ELSE speeds.cycling

\* this.playbackTimer = setTimeout(...): a tick the handle held stays pending.
scheduleTick ==
  /\ playbackTimer' = "pending"
  /\ orphanTicks' = orphanTicks + (IF playbackTimer = "pending" THEN 1 ELSE 0)

\* advanceFrame after `await transitionTo`: advance on success, schedule the next tick.
MicroResume ==
  /\ micro # <<>>
  /\ Head(micro).op = "resume"
  /\ micro' = Tail(micro)
  /\ LET r == Head(micro).result IN
     IF r = "throw"
     THEN \* the await throws: advanceFrame ends here
          /\ out' = <<>>
          /\ UNCHANGED <<routeVars, playVars>>
     ELSE /\ currentIndex' = IF Succeeded(r) THEN advance(currentIndex)
                             ELSE currentIndex
          /\ out' = (IF Succeeded(r)
                     THEN <<Ev("progress", getProgress(advance(currentIndex)))>>
                     ELSE <<>>)
                    \o (IF NotPlaying THEN <<>>
                        ELSE <<Ev("schedule", interval(speed))>>)
          /\ IF NotPlaying
             THEN UNCHANGED <<playbackTimer, orphanTicks>>
             ELSE scheduleTick
          /\ UNCHANGED <<waypoints, waypointKeys, isPlaying, isPaused, autoHeading, speed>>
  /\ UNCHANGED <<engineVars, viewerPos, cacheVars>>

Pause ==
  /\ LoopIdle
  /\ isPaused' = TRUE
  /\ isPlaying' = FALSE
  /\ playbackTimer' = "null"
  /\ out' = <<>>
  /\ UNCHANGED <<routeVars, orphanTicks, autoHeading, speed, engineVars, viewerPos,
                 cacheVars, micro>>

Stop ==
  /\ LoopIdle
  /\ stop(orphanTicks)
  /\ out' = <<>>
  /\ UNCHANGED <<autoHeading, speed, engineVars, viewerPos, cacheVars, micro>>

\* The frame counts skip is called with: the arrow keys, plain and shifted.
SkipFrames == {0 - 10, 0 - 1, 1, 10}

\* skip's newIndex
skipIndexUnclamped(idx, frames) == idx + frames
skipIndex(idx, frames) == Max(0, Min(Len(waypoints) - 1, idx + frames))

Skip(frames) ==
  /\ LoopIdle
  /\ LET newIndex == skipIndex(currentIndex, frames)
         idx == jumpTo(currentIndex, newIndex)
     IN  /\ currentIndex' = idx
         /\ IF HasCurrent(idx)
            THEN transitionTo("skip", getCurrentWaypoint(idx), getHeadingToNext(idx))
            ELSE /\ out' = <<>>
                 /\ UNCHANGED <<engineVars, viewerPos, micro>>
  /\ UNCHANGED <<waypoints, waypointKeys, playVars, cacheVars>>

\* RouteManager.setRoute, reached from the setPoint and captureRoute messages
SetRoute(points) ==
  /\ LoopIdle
  /\ waypoints' = preprocessRoute(points)
  /\ waypointKeys' = routeKeys(points)
  /\ currentIndex' = 0
  /\ out' = <<>>
  /\ UNCHANGED <<playVars, engineVars, viewerPos, cacheVars, micro>>

----------------------------------------------------------------------------
(* CacheManager: the fetches precachePoint starts, to their end *)

\* CacheManager.maxCacheSize
MaxCacheSize == 50
\* The centre tiles precachePanorama requests per panorama.
TilesPerPano == 3

\* Set.add: a new key goes last in insertion order, a present one stays in place.
cacheAdd(c, key) == IF key \in Range(c) THEN c ELSE Append(c, key)

\* trimCache: the cached keys after the call
trimCacheNever(c) == c
trimCacheNewest(c) == IF Len(c) > MaxCacheSize THEN SubSeq(c, 1, MaxCacheSize) ELSE c
trimCache(c) ==
  IF Len(c) > MaxCacheSize
  THEN SubSeq(c, Len(c) - MaxCacheSize + 1, Len(c))
  ELSE c

\* if (panoId)
hasPanoAlways(outcome) == TRUE
hasPano(outcome) == outcome = "pano"

\* The finally block: the loading set after it
finallyLoadingKept(key) == loading
finallyLoading(key) == loading \ {key}

\* After `await precachePanorama`, ok of its tiles loaded: the cached keys
cachedIfAllTiles(c, key, ok) == IF ok = TilesPerPano THEN cacheAdd(c, key) ELSE c
afterPanorama(c, key, ok) == cacheAdd(c, key)

\* advanceFrame's precacheRoute(waypoints, idx) call, on its own.
Warm(idx) ==
  /\ LoopIdle
  /\ HasNext(idx)
  /\ precacheRoute(idx)
  /\ out' = <<Ev("warm", idx)>>
  /\ UNCHANGED <<routeVars, playVars, engineVars, viewerPos, micro>>

\* `await findNearestPanoId` settles for fetch f: with an identifier, with null,
\* or by a throw that precachePoint catches.
FetchResolved(f) ==
  /\ f \in BagToSet(fetches)
  /\ f.pc = "resolve"
  /\ \E outcome \in {"pano", "null", "throw"} :
       IF outcome # "throw" /\ hasPano(outcome)
       THEN /\ fetches' = (fetches (-) SetToBag({f}))
                          (+) SetToBag({[f EXCEPT !.pc = "tiles"]})
            /\ out' = <<Ev(IF outcome = "pano" THEN "pano" ELSE "noPano", f.key)>>
            /\ UNCHANGED <<cached, loading>>
       ELSE /\ loading' = finallyLoading(f.key)
            /\ cached' = trimCache(cached)
            /\ fetches' = fetches (-) SetToBag({f})
            /\ out' = <<Ev(IF outcome = "throw" THEN "precacheFailed" ELSE "noPano",
                           f.key)>>
  /\ UNCHANGED <<routeVars, playVars, engineVars, viewerPos, micro>>

\* Promise.allSettled of the tile loads settles, ok of them loaded: cached.add,
\* the finally block, trimCache.
FetchTiles(f) ==
  /\ f \in BagToSet(fetches)
  /\ f.pc = "tiles"
  /\ \E ok \in 0..TilesPerPano :
       /\ cached' = trimCache(afterPanorama(cached, f.key, ok))
       /\ out' = <<Ev("tiles", ok)>>
  /\ loading' = finallyLoading(f.key)
  /\ fetches' = fetches (-) SetToBag({f})
  /\ UNCHANGED <<routeVars, playVars, engineVars, viewerPos, micro>>

----------------------------------------------------------------------------
\* Playback at the speed init() sets: the setPoint, captureRoute, play, pause,
\* stop and updateSettings messages, the Space, Escape and arrow-left/right
\* keys, the tick, the timers of transitionTo and the settling of the fetches
\* play() and the ticks start. The setSpeed message and the ArrowUp / ArrowDown
\* keys are added by NextSpeed.
Next ==
  \/ \E points \in InputRoutes : SetRoute(points)
  \/ Play
  \/ Pause
  \/ Stop
  \/ \E frames \in SkipFrames : Skip(frames)
  \/ \E e \in BOOLEAN, a \in BOOLEAN : UpdateSettings(e, a)
  \/ \E held \in BOOLEAN : Tick(held)
  \/ \E i \in 1..Len(flights) : FlightMove(i)
  \/ \E i \in 1..Len(flights) : FlightLoaded(i)
  \/ \E i \in 1..Len(flights) : FlightRender(i)
  \/ \E i \in 1..Len(flights) : FlightDone(i)
  \/ MicroPov
  \/ MicroResume
  \/ \E f \in BagToSet(fetches) : FetchResolved(f)
  \/ \E f \in BagToSet(fetches) : FetchTiles(f)

Spec == Init /\ [][Next]_vars

----------------------------------------------------------------------------
(* Steps and states the properties speak of *)

\* A step in which advanceFrame or skip calls transitionTo.
CallsTransitionTo ==
  \/ Play /\ hasRoute /\ ~isPlaying /\ HasNext(currentIndex)
  \/ \E held \in BOOLEAN : Tick(held) /\ isPlaying /\ ~isPaused /\ HasNext(currentIndex)
  \/ \E frames \in SkipFrames : Skip(frames) /\ HasCurrent(currentIndex')

\* transitionTo activations between their start and their return.
InFlight ==
  Len(flights) + Cardinality({i \in 1..Len(micro) : micro[i].op = "pov"})

\* The last thing the last step emitted.
LastOut == IF out = <<>> THEN Ev("", 0) ELSE out[Len(out)]

\* The progress reports among the events of a step.
IsReport(e) == e.ev = "progress"
Reports(o) == SelectSeq(o, IsReport)

\* An advance cycle is about to resume from `await transitionTo`.
Resuming == micro # <<>> /\ Head(micro).op = "resume"

Stopped == ~isPlaying /\ ~isPaused
Playing == isPlaying /\ ~isPaused
Paused  == isPaused /\ ~isPlaying

----------------------------------------------------------------------------
(* C1 *)

\* C1: while a transition is InProgress, a further transitionTo call returns false
\* at once, starts no activation, commands no viewer move and leaves both overlay
\* opacities and the InProgress flag as they are.
C1_RejectedWhileInProgress ==
  [][(isTransitioning /\ CallsTransitionTo) =>
       /\ out' = <<Ev("reject", 0)>>
       /\ UNCHANGED <<isTransitioning, overlayOpacity, imageOpacity, flights, viewerPos>>
       /\ \A i \in 1..Len(micro') : micro'[i].result = "false"]_vars

\* An advance cycle's call was rejected while a skip's transition was in flight.
C1_Witness ==
  /\ isTransitioning
  /\ out = <<Ev("reject", 0)>>
  /\ Len(flights) = 1
  /\ flights[1].caller = "skip"
  /\ Resuming

(* C2 *)

\* C2: at most one transitionTo activation is between its start and its return,
\* whatever the enabled setting is and whoever calls.
C2_SingleFlight == InFlight <= 1

\* A call was refused while an activation was in flight and transitions had been
\* switched off meanwhile.
C2_Witness ==
  /\ InFlight = 1
  /\ ~enabled
  /\ out = <<Ev("reject", 0)>>
  /\ micro = <<>>

(* C3 *)

\* A step of an enabled transition: one of its timers or waits settles.
FlightStep ==
  \E i \in 1..Len(flights) :
    FlightMove(i) \/ FlightLoaded(i) \/ FlightRender(i) \/ FlightDone(i)

\* The event loop runs every microtask, and every timer that is due once the
\* handlers that keep arriving have run.
LiveSpec ==
  /\ Spec
  /\ SF_vars(FlightStep)
  /\ WF_vars(MicroPov)
  /\ WF_vars(MicroResume)

\* C3: every transitionTo call that entered InProgress eventually returns, and at
\* its return, true or false, isBusy() is false.
C3_ReturnsAndReleases ==
  /\ (Len(flights) > 0) ~> (Len(flights) = 0)
  /\ [][Len(flights') < Len(flights) => (LastOut'.ev = "return" /\ ~isBusy')]_vars

\* A transition whose steps all succeeded has returned true and the engine is Idle.
C3_Witness ==
  /\ out = <<Ev("return", 1)>>
  /\ flights = <<>>
  /\ ~isBusy
  /\ enabled
  /\ viewerPos # NoPos

(* C4 *)

\* C4: whenever the engine is Idle both overlay opacities are 0; a transition that
\* threw after revealing an overlay hid it before it returned false.
C4_IdleOverlaysHidden ==
  ~isTransitioning => (overlayOpacity = "0" /\ imageOpacity = "0")

\* A step of an enabled transition threw: it returned false, the engine is Idle.
C4_Witness ==
  /\ LastOut = Ev("return", 0)
  /\ ~isTransitioning
  /\ flights = <<>>
  /\ overlayOpacity = "0"
  /\ imageOpacity = "0"

(* C5 *)

\* C5: an advance cycle that resumes from its awaited transitionTo moves the cursor
\* and reports progress only if the result was true, and then by one waypoint at
\* most; with any other result the cursor stays and nothing is reported.
C5_AdvanceOnlyOnSuccess ==
  [][MicroResume =>
       IF Head(micro).result = "true"
       THEN /\ currentIndex' = Min(currentIndex + 1, Max(Len(waypoints) - 1, 0))
            /\ Reports(out') = <<Ev("progress", getProgress(currentIndex'))>>
       ELSE /\ currentIndex' = currentIndex
            /\ Reports(out') = <<>>]_vars

\* A cycle whose transitionTo returned false has resumed with waypoints left.
C5_Witness ==
  /\ Resuming
  /\ Head(micro).result = "false"
  /\ HasNext(currentIndex)
  /\ isPlaying

(* C6 *)

\* C6: pause() leaves the transition in flight alone, and the advance cycle that
\* resumes from that transition after pause() leaves the cursor where it was.
C6_CursorKeptWhenPaused ==
  [][/\ Pause => UNCHANGED <<engineVars, viewerPos, micro, currentIndex>>
     /\ (MicroResume /\ isPaused) => currentIndex' = currentIndex]_vars

(* C7 *)

\* C7: while the state is Paused no scheduled tick is pending, no tick gets
\* scheduled and no advance cycle gets past its Playing test to call transitionTo.
C7_NoTickWhilePaused ==
  /\ [](isPaused => PendingTicks = 0)
  /\ [][(isPaused /\ isPaused') =>
          /\ PendingTicks' <= PendingTicks
          /\ Cycles' <= Cycles]_vars

\* A tick that pause()'s clearTimeout did not reach is still pending while Paused.
C7_Orphan ==
  /\ isPaused
  /\ playbackTimer = "null"
  /\ orphanTicks > 0

(* C8 *)

\* C8: when stop() returns, the state is Stopped, no scheduled tick is pending and
\* the cursor is 0.
C8_StopResets ==
  [][Stop => (Stopped' /\ PendingTicks' = 0 /\ currentIndex' = 0)]_vars

(* C9 *)

\* C9: play() with a route of fewer than 2 waypoints, or while already Playing,
\* changes no state, cursor, tick, viewer or engine field and raises no error (it
\* only logs a warning when there is no route).
C9_PlayNoOp ==
  [][(Play /\ (Len(waypoints) < 2 \/ isPlaying)) =>
       /\ UNCHANGED <<routeVars, playVars, engineVars, viewerPos, cacheVars, micro>>
       /\ \A i \in 1..Len(out') : out'[i].ev = "warn"]_vars

\* play() was called with a one-point route: a warning, and still Stopped.
C9_Witness ==
  /\ out = <<Ev("warn", 0)>>
  /\ Len(waypoints) = 1
  /\ Stopped
  /\ PendingTicks = 0
  /\ viewerPos = NoPos

(* C10 *)

PlayState ==
  IF isPaused THEN "Paused" ELSE IF isPlaying THEN "Playing" ELSE "Stopped"

\* C10: the playback state changes only along Stopped->Playing, Playing->Paused,
\* Paused->Playing, Playing->Stopped and Paused->Stopped.
C10_StateMachine ==
  [][PlayState' # PlayState =>
       <<PlayState, PlayState'>> \in
         {<<"Stopped", "Playing">>, <<"Playing", "Paused">>, <<"Paused", "Playing">>,
          <<"Playing", "Stopped">>, <<"Paused", "Stopped">>}]_vars

(* C11 *)

\* C11 as stated: skip(n) moves the cursor to min(length - 1, max(0, cursor + n))
\* and leaves the playback state and the pending tick unchanged.
C11_SkipMovesAsStated ==
  [][\A frames \in SkipFrames : Skip(frames) =>
       /\ currentIndex' = Min(Len(waypoints) - 1, Max(0, currentIndex + frames))
       /\ UNCHANGED playVars]_vars

\* C11 amended: skip(n) on a route with at least one waypoint moves the cursor to
\* max(0, min(length - 1, cursor + n)); on an empty route the cursor stays 0. In
\* both cases the playback state and the pending ticks are unchanged.
C11_SkipMovesClamped ==
  [][\A frames \in SkipFrames : Skip(frames) =>
       /\ currentIndex' = IF Len(waypoints) = 0 THEN currentIndex
                          ELSE Max(0, Min(Len(waypoints) - 1, currentIndex + frames))
       /\ currentIndex' >= 0
       /\ UNCHANGED <<playVars, waypoints>>]_vars

\* skip(+1) while Stopped: the cursor is 1, the skip's transition is in flight,
\* and playback has not started.
C11_Witness ==
  /\ Stopped
  /\ currentIndex = 1
  /\ PendingTicks = 0
  /\ Len(flights) = 1
  /\ flights[1].caller = "skip"
  /\ flights[1].pc = "delay50"
  /\ out = <<Ev("reveal", 0)>>

(* C12 *)

\* C12: a skip issued while a transition is in flight still moves the cursor (as
\* skip always does), but its transitionTo call is rejected: that step commands
\* no viewer position and leaves the viewer and the engine as they are.
C12_SkipInFlightRejected ==
  [][\A frames \in SkipFrames : (InFlight > 0 /\ Skip(frames)) =>
       /\ currentIndex' = IF Len(waypoints) = 0 THEN currentIndex
                          ELSE Max(0, Min(Len(waypoints) - 1, currentIndex + frames))
       /\ \A i \in 1..Len(out') : out'[i].ev = "reject"
       /\ HasCurrent(currentIndex') => out' = <<Ev("reject", 0)>>
       /\ UNCHANGED <<viewerPos, engineVars, micro>>]_vars

\* A skip during the advance cycle's transition moved the cursor to 1 before the
\* viewer was given any position.
C12_Witness ==
  /\ Len(flights) = 1
  /\ flights[1].caller = "advance"
  /\ out = <<Ev("reject", 0)>>
  /\ micro = <<>>
  /\ currentIndex = 1
  /\ viewerPos = NoPos

(* C13 *)

\* After setRoute and updateSettings, before play().
InitRun ==
  /\ \E points \in RunRoutes :
       /\ waypoints = preprocessRoute(points)
       /\ waypointKeys = routeKeys(points)
  /\ currentIndex = 0
  /\ isPlaying = FALSE
  /\ isPaused = FALSE
  /\ playbackTimer = "null"
  /\ orphanTicks = 0
  /\ autoHeading \in BOOLEAN
  /\ speed = "cycling"
  /\ isTransitioning = FALSE
  /\ enabled \in BOOLEAN
  /\ overlayOpacity = "0"
  /\ imageOpacity = "0"
  /\ flights = <<>>
  /\ flashes = <<>>
  /\ viewerPos = NoPos
  /\ cached = <<>>
  /\ loading = {}
  /\ fetches = EmptyBag
  /\ micro = <<>>
  /\ out = <<>>

\* The step's transitionTo did not throw, was not rejected and did not return false.
AllSucceed ==
  \A i \in 1..Len(out') :
    /\ out'[i].ev \notin {"throw", "reject"}
    /\ out'[i] # Ev("return", 0)

RunPlay == Play /\ AllSucceed
RunTick == Tick(TRUE) /\ AllSucceed
RunFlight == FlightStep /\ AllSucceed
RunPov == MicroPov /\ AllSucceed

\* play(), ticks, transitions and the fetches the ticks start: no pause, stop,
\* skip or setRoute.
NextRun ==
  \/ RunPlay
  \/ RunTick
  \/ RunFlight
  \/ RunPov
  \/ MicroResume
  \/ \E f \in BagToSet(fetches) : FetchResolved(f)
  \/ \E f \in BagToSet(fetches) : FetchTiles(f)

RunSpec ==
  /\ InitRun
  /\ [][NextRun]_vars
  /\ SF_vars(RunTick)
  /\ SF_vars(RunFlight)
  /\ WF_vars(RunPov)
  /\ WF_vars(MicroResume)

\* C13: in an undisturbed run whose transitions all succeed, every advance cycle
\* moves the cursor up by exactly one, the cursor changes in no other way until
\* playback stops, playback stops only with the cursor at the last waypoint, and
\* from play() at cursor 0 the cursor reaches the last waypoint and playback then
\* stops by itself.
C13_RunVisitsAllInOrder ==
  /\ [][MicroResume => currentIndex' = currentIndex + 1]_vars
  /\ [][currentIndex' # currentIndex =>
          \/ MicroResume /\ currentIndex' = currentIndex + 1 /\ isPlaying'
          \/ currentIndex = Len(waypoints) - 1 /\ currentIndex' = 0 /\ Stopped']_vars
  /\ [][(isPlaying /\ ~isPlaying') => currentIndex = Len(waypoints) - 1]_vars
  /\ (isPlaying /\ currentIndex = 0) ~> (isPlaying /\ currentIndex = Len(waypoints) - 1)
  /\ isPlaying ~> Stopped

\* A run over MaxRunSpan + 2 waypoints has ended: the viewer is at the last
\* waypoint, the last tick found no next waypoint and stopped playback.
C13_Witness ==
  /\ Stopped
  /\ Len(waypoints) = MaxRunSpan + 2
  /\ viewerPos = waypoints[Len(waypoints)]
  /\ playbackTimer = "null"
  /\ PendingTicks = 0
  /\ currentIndex = 0
  /\ micro = <<>>

(* C14 *)

\* C14: when an advance cycle resumes from a transition that returned true and
\* advances the cursor, the position last commanded to the viewer is the waypoint
\* at the new cursor.
C14_ViewerAtCursor ==
  [][(Resuming /\ Head(micro).result = "true" /\ currentIndex' # currentIndex) =>
       viewerPos' = waypoints'[currentIndex' + 1]]_vars

----------------------------------------------------------------------------
(* C15 .. C21: the cache on its own *)

\* Keys cached by earlier playback, south of the equator: key 0 - 1 first.
OldKeys(n) == [i \in 1..n |-> 0 - i]

\* The controller with any number of keys cached by earlier playback.
InitCache ==
  /\ waypoints = <<>>
  /\ waypointKeys = <<>>
  /\ currentIndex = 0
  /\ isPlaying = FALSE
  /\ isPaused = FALSE
  /\ playbackTimer = "null"
  /\ orphanTicks = 0
  /\ autoHeading = TRUE
  /\ speed = "cycling"
  /\ isTransitioning = FALSE
  /\ enabled = TRUE
  /\ overlayOpacity = "0"
  /\ imageOpacity = "0"
  /\ flights = <<>>
  /\ flashes = <<>>
  /\ viewerPos = NoPos
  /\ cached \in {OldKeys(n) : n \in 0..MaxCacheSize}
  /\ loading = {}
  /\ fetches = EmptyBag
  /\ micro = <<>>
  /\ out = <<>>

NextCache ==
  \/ \E points \in CacheRoutes : SetRoute(points)
  \/ \E idx \in 0..(MaxCacheSpan + 1) : Warm(idx)
  \/ \E f \in BagToSet(fetches) : FetchResolved(f)
  \/ \E f \in BagToSet(fetches) : FetchTiles(f)

SpecCache == InitCache /\ [][NextCache]_vars

\* The fetches in flight for a key.
FetchesOf(key) ==
  CopiesIn([key |-> key, pc |-> "resolve"], fetches)
  + CopiesIn([key |-> key, pc |-> "tiles"], fetches)

(* C15 *)

\* C15: no key is in the loading set and in the cached set at once.
C15_LoadingCachedDisjoint == Range(cached) \cap loading = {}

\* One key of the route is cached while the fetch of another one is in flight.
C15_Witness ==
  /\ \E i \in 1..Len(cached) : cached[i] >= 0
  /\ loading # {}
  /\ out = <<Ev("tiles", 0)>>
  /\ Len(cached) < MaxCacheSize

(* C16 *)

\* C16: the cached set never holds more than maxCacheSize keys.
C16_CacheBounded == Len(cached) <= MaxCacheSize

\* A fetch completed on a full cache: the oldest key was evicted, the size is
\* maxCacheSize.
C16_Witness ==
  /\ Len(cached) = MaxCacheSize
  /\ cached[1] = 0 - 2
  /\ cached[MaxCacheSize] >= 0
  /\ out = <<Ev("tiles", TilesPerPano)>>

(* C17 *)

\* C17: the cached keys are the latest-inserted ones in insertion order; the
\* absent ones are exactly the earliest-inserted, and once a key has been evicted
\* the size is exactly maxCacheSize. Each completed fetch puts its key last and,
\* on a full cache, evicts the first key only.
C17_EvictsOldestFirst ==
  /\ [](\E n \in 0..MaxCacheSize, e \in 0..MaxCacheSize :
          /\ e <= n
          /\ Len(cached) >= n - e
          /\ \A i \in 1..(n - e) : cached[i] = 0 - (e + i)
          /\ \A i \in (n - e + 1)..Len(cached) : cached[i] >= 0
          /\ \A i, j \in 1..Len(cached) : cached[i] = cached[j] => i = j
          /\ e > 0 => Len(cached) = MaxCacheSize)
  /\ [][\A f \in BagToSet(fetches) : FetchTiles(f) =>
          cached' = IF Len(cached) = MaxCacheSize
                    THEN Tail(cached) \o <<f.key>>
                    ELSE Append(cached, f.key)]_vars

\* maxCacheSize + 2 distinct keys were inserted: the two earliest are absent.
C17_Witness ==
  /\ Len(cached) = MaxCacheSize
  /\ cached[1] = 0 - 3
  /\ cached[MaxCacheSize - 2] = 0 - MaxCacheSize
  /\ cached[MaxCacheSize - 1] >= 0
  /\ cached[MaxCacheSize] >= 0

(* C18 *)

\* C18: no key has two fetches in flight, the loading set holds exactly the keys
\* with a fetch in flight, and a precacheRoute call that directly follows one for
\* the same window starts no fetch.
C18_OneFetchPerKey ==
  /\ [](\A f \in BagToSet(fetches) : FetchesOf(f.key) = 1 /\ f.key \in loading)
  /\ [](\A key \in loading : FetchesOf(key) = 1)
  /\ [][\A idx \in 0..(MaxCacheSpan + 1) :
          (out = <<Ev("warm", idx)>> /\ Warm(idx)) => UNCHANGED cacheVars]_vars

\* The second of two precacheRoute calls for one window has run; fetches started
\* by the first are in flight.
C18_Witness ==
  /\ out = <<Ev("warm", 0)>>
  /\ Cardinality(loading) = MaxCacheSpan + 2
  /\ \A key \in loading : FetchesOf(key) = 1
  /\ \A f \in BagToSet(fetches) : f.pc = "resolve"

(* C19 *)

\* C19: when findNearestPanoId resolves null for a fetch, the fetch ends with its
\* key out of the loading set, the cached set as it was, and no error raised.
C19_UnresolvedLeftUncached ==
  [][\A f \in BagToSet(fetches) :
       (FetchResolved(f) /\ out' = <<Ev("noPano", f.key)>>) =>
         /\ f.key \notin loading'
         /\ cached' = cached
         /\ f.key \notin Range(cached')
         /\ FetchesOf(f.key)' = 0]_vars

\* No identifier was found for the key of the route's first point.
C19_Witness ==
  /\ out = <<Ev("noPano", 0)>>
  /\ 0 \notin loading
  /\ 0 \notin Range(cached)
  /\ Len(waypoints) > 2

(* C20 *)

\* C20: when the tile loads of a resolved panorama have all settled, the key is
\* in the cached set and out of the loading set, however many of them loaded.
C20_CachedOnceResolved ==
  [][\A f \in BagToSet(fetches) : FetchTiles(f) =>
       /\ f.key \in Range(cached')
       /\ f.key \notin loading'
       /\ out'[1].ev = "tiles"
       /\ out'[1].arg \in 0..TilesPerPano]_vars

\* A key was cached although only one of its tiles loaded.
C20_Witness ==
  /\ out = <<Ev("tiles", 1)>>
  /\ cached # <<>>
  /\ cached[Len(cached)] >= 0
  /\ cached[Len(cached)] \notin loading

(* C21 *)

\* C21: after the resolution for a key has failed (no identifier, or a throw), a
\* following precacheRoute call whose window holds that key starts no fetch for it.
C21_FailedNeverRefetched ==
  [][\A idx \in 0..(MaxCacheSpan + 1) :
       (/\ out # <<>>
        /\ out[1].ev \in {"noPano", "precacheFailed"}
        /\ Warm(idx)) => FetchesOf(out[1].arg)' = 0]_vars

(* C22 *)

\* C22: transitionTo never throws or rejects to the advance cycle: no cycle's
\* `await transitionTo` is resumed by a rejection.
C22_NeverRejects == \A i \in 1..Len(micro) : micro[i].result # "throw"

----------------------------------------------------------------------------
(* RouteManager: its cursor operations, called in any order *)

\* goBack(): the cursor after the call
goBackUnchecked(idx) == idx - 1
goBack(idx) == IF idx > 0 THEN idx - 1 ELSE idx

\* jumpToPercent's index: Math.floor((percent / 100) * (length - 1))
percentIndex(percent) == (percent * (Len(waypoints) - 1)) \div 100
jumpToPercent(idx, percent) == jumpTo(idx, percentIndex(percent))

isComplete(idx) == idx >= Len(waypoints) - 1

JumpIndexes == (0 - 2)..(MaxRouteSpan + 3)
JumpPercents == {0 - 50, 0 - 1, 0, 1, 33, 50, 99, 100, 101, 150}

\* What the route operations leave alone.
restVars == <<playVars, engineVars, viewerPos, cacheVars, micro>>

Returned(idx) == Ev("return", IF idx # currentIndex THEN 1 ELSE 0)

RouteAdvance ==
  /\ currentIndex' = advance(currentIndex)
  /\ out' = <<Ev("advance", 0), Returned(advance(currentIndex))>>
  /\ UNCHANGED <<waypoints, waypointKeys, restVars>>

RouteGoBack ==
  /\ currentIndex' = goBack(currentIndex)
  /\ out' = <<Ev("goBack", 0), Returned(goBack(currentIndex))>>
  /\ UNCHANGED <<waypoints, waypointKeys, restVars>>

RouteJumpTo(index) ==
  /\ currentIndex' = jumpTo(currentIndex, index)
  /\ out' = <<Ev("jumpTo", index),
              Ev("return", IF index >= 0 /\ index < Len(waypoints) THEN 1 ELSE 0)>>
  /\ UNCHANGED <<waypoints, waypointKeys, restVars>>

RouteJumpToPercent(percent) ==
  /\ currentIndex' = jumpToPercent(currentIndex, percent)
  /\ out' = <<Ev("jumpToPercent", percent),
              Ev("return", IF percentIndex(percent) >= 0
                              /\ percentIndex(percent) < Len(waypoints)
                           THEN 1 ELSE 0)>>
  /\ UNCHANGED <<waypoints, waypointKeys, restVars>>

RouteReset ==
  /\ currentIndex' = 0
  /\ out' = <<Ev("reset", 0)>>
  /\ UNCHANGED <<waypoints, waypointKeys, restVars>>

RouteClear ==
  /\ waypoints' = <<>>
  /\ waypointKeys' = <<>>
  /\ currentIndex' = 0
  /\ out' = <<Ev("clear", 0)>>
  /\ UNCHANGED restVars

NextRoute ==
  \/ \E points \in RouteInputs : SetRoute(points)
  \/ RouteAdvance
  \/ RouteGoBack
  \/ \E index \in JumpIndexes : RouteJumpTo(index)
  \/ \E percent \in JumpPercents : RouteJumpToPercent(percent)
  \/ \E frames \in SkipFrames : Skip(frames)
  \/ RouteReset
  \/ RouteClear

SpecRoute == Init /\ [][NextRoute]_vars

(* C23 *)

\* C23 as stated: for every route, progress is 0 at cursor 0 and 100 at the last
\* index, and advance() never lowers it.
C23_ProgressAsStated ==
  /\ [](currentIndex = 0 => getProgress(currentIndex) = 0)
  /\ []((Len(waypoints) > 0 /\ currentIndex = Len(waypoints) - 1) =>
          getProgress(currentIndex) = 100)
  /\ [][RouteAdvance => getProgress(currentIndex)' >= getProgress(currentIndex)]_vars

\* C23 amended: progress is 0 at cursor 0; it is 100 at the last index of a route
\* of at least 2 waypoints and 0 throughout for a shorter route; between 0 and
\* 100 always; advance() never lowers it, and raises it until isComplete().
C23_ProgressOfPlayableRoute ==
  /\ [](currentIndex = 0 => getProgress(currentIndex) = 0)
  /\ [](Len(waypoints) <= 1 => getProgress(currentIndex) = 0)
  /\ []((Len(waypoints) >= 2 /\ currentIndex = Len(waypoints) - 1) =>
          getProgress(currentIndex) = 100)
  /\ [](getProgress(currentIndex) >= 0 /\ getProgress(currentIndex) <= 100)
  /\ [][RouteAdvance =>
          IF isComplete(currentIndex)
          THEN getProgress(currentIndex)' = getProgress(currentIndex)
          ELSE getProgress(currentIndex)' > getProgress(currentIndex)]_vars

\* advance() reached the last index of a route of MaxRouteSpan + 2 waypoints.
C23_Witness ==
  /\ out = <<Ev("advance", 0), Ev("return", 1)>>
  /\ Len(waypoints) = MaxRouteSpan + 2
  /\ isComplete(currentIndex)
  /\ getProgress(currentIndex) = 100

(* C24 *)

\* C24 as stated: 0 <= cursor < length in every state.
C24_CursorBelowLength == currentIndex >= 0 /\ currentIndex < Len(waypoints)

\* C24 amended: 0 <= cursor < length whenever the route has a waypoint, and the
\* cursor is 0 when it has none; setRoute and clear reset the cursor to 0.
C24_CursorInRoute ==
  /\ [](currentIndex >= 0)
  /\ [](IF Len(waypoints) = 0 THEN currentIndex = 0
        ELSE currentIndex < Len(waypoints))
  /\ [][((\E points \in RouteInputs : SetRoute(points)) \/ RouteClear \/ RouteReset)
          => currentIndex' = 0]_vars

\* goBack() at the first waypoint: refused, the cursor is still 0.
C24_Witness ==
  /\ out = <<Ev("goBack", 0), Ev("return", 0)>>
  /\ currentIndex = 0
  /\ Len(waypoints) >= 2

(* C25 *)

\* C25: jumpTo and jumpToPercent never move the cursor outside [0, length - 1]:
\* after the call it is inside whenever the route has a waypoint, and it is
\* unchanged on an empty route.
C25_JumpStaysInside ==
  [][((\E index \in JumpIndexes : RouteJumpTo(index))
      \/ (\E percent \in JumpPercents : RouteJumpToPercent(percent))) =>
       IF Len(waypoints) = 0 THEN currentIndex' = currentIndex
       ELSE currentIndex' >= 0 /\ currentIndex' <= Len(waypoints) - 1]_vars

\* jumpToPercent(150) was refused with the cursor inside the route.
C25_Witness ==
  /\ out = <<Ev("jumpToPercent", 150), Ev("return", 0)>>
  /\ currentIndex = 1
  /\ Len(waypoints) >= 3

(* C26 *)

\* C26: jumpTo(index) sets the cursor to index clamped into [0, length - 1], and
\* jumpToPercent(p) to the clamped floor(p / 100 * (length - 1)).
C26_JumpClamps ==
  [][/\ \A index \in JumpIndexes : (Len(waypoints) > 0 /\ RouteJumpTo(index)) =>
          currentIndex' = Max(0, Min(Len(waypoints) - 1, index))
     /\ \A percent \in JumpPercents :
          (Len(waypoints) > 0 /\ RouteJumpToPercent(percent)) =>
            currentIndex' = Max(0, Min(Len(waypoints) - 1,
                                       (percent * (Len(waypoints) - 1)) \div 100))]_vars

(* C27 *)

\* C27: advance() raises the cursor by exactly one and returns true when the
\* cursor is below the last index; otherwise it returns false and leaves the
\* cursor; it never changes the waypoints.
C27_AdvanceByOne ==
  [][RouteAdvance =>
       /\ IF currentIndex < Len(waypoints) - 1
          THEN currentIndex' = currentIndex + 1 /\ out'[2] = Ev("return", 1)
          ELSE currentIndex' = currentIndex /\ out'[2] = Ev("return", 0)
       /\ waypoints' = waypoints]_vars

\* advance() at the last index of a route: false, the cursor stays.
C27_Witness ==
  /\ out = <<Ev("advance", 0), Ev("return", 0)>>
  /\ Len(waypoints) >= 2
  /\ currentIndex = Len(waypoints) - 1

(* C28 *)

\* C28: setRoute of two points D > 20 m apart yields at least ceil(D / 20) + 1
\* points (exactly that many), the first and the last equal to the inputs, the
\* ones between strictly progressing from the first input to the second.
C28_InterpolatedRoute ==
  [][\A points \in RouteInputs :
       (/\ Len(points) = 2
        /\ calculateDistance(points[1], points[2]) > TargetSpacing * UmPerMeter
        /\ SetRoute(points)) =>
         LET D == calculateDistance(points[1], points[2])
             n == Len(waypoints')
         IN  /\ (n - 1) * TargetSpacing * UmPerMeter >= D
             /\ (n - 2) * TargetSpacing * UmPerMeter < D
             /\ waypoints'[1] = points[1]
             /\ waypoints'[n] = points[2]
             /\ \A i \in 1..(n - 1) :
                  IF points[2] > points[1]
                  THEN waypoints'[i] < waypoints'[i + 1]
                  ELSE waypoints'[i] > waypoints'[i + 1]]_vars

\* A southward input of MaxRouteSpan spacings became MaxRouteSpan + 2 waypoints.
C28_Witness ==
  /\ Len(waypoints) = MaxRouteSpan + 2
  /\ waypoints[1] = 180 * MaxRouteSpan
  /\ waypoints[Len(waypoints)] = 0
  /\ currentIndex = 0
  /\ out = <<>>

(***************************************************************************)
(* Playback speed: StreetFlixController.speed, the ArrowUp / ArrowDown     *)
(* keys and the popup's setSpeed message.                                  *)
(***************************************************************************)

\* const speedOrder = ['walking', 'cycling', 'driving', 'flying']
SpeedOrder == <<"walking", "cycling", "driving", "flying">>

\* speedOrder.indexOf(s): zero-based, -1 when s is not in the list
indexOf(s) ==
  IF \E i \in 1..Len(SpeedOrder) : SpeedOrder[i] = s
  THEN (CHOOSE i \in 1..Len(SpeedOrder) : SpeedOrder[i] = s) - 1
  ELSE 0 - 1

speedUpWrapping(s) == SpeedOrder[((indexOf(s) + 1) % Len(SpeedOrder)) + 1]

\* speedUp(): if (idx < speedOrder.length - 1) this.speed = speedOrder[idx + 1]
speedUp(s) ==
  IF indexOf(s) < Len(SpeedOrder) - 1 THEN SpeedOrder[indexOf(s) + 2] ELSE s

\* slowDown(): if (idx > 0) this.speed = speedOrder[idx - 1]
slowDown(s) ==
  IF indexOf(s) > 0 THEN SpeedOrder[indexOf(s)] ELSE s

\* The values a setSpeed message may carry: the popup's four buttons, a value
\* that names nothing, and one that names an inherited property.
SpeedInputs == {"walking", "cycling", "driving", "flying", "warp", "toString"}

speedRest == <<routeVars, isPlaying, isPaused, playbackTimer, orphanTicks,
               autoHeading, engineVars, viewerPos, cacheVars, micro>>

\* keydown ArrowUp -> speedUp()
SpeedUp ==
  /\ LoopIdle
  /\ speed' = speedUp(speed)
  /\ out' = <<Ev("speedUp", 0)>>
  /\ UNCHANGED speedRest

\* keydown ArrowDown -> slowDown()
SlowDown ==
  /\ LoopIdle
  /\ speed' = slowDown(speed)
  /\ out' = <<Ev("slowDown", 0)>>
  /\ UNCHANGED speedRest

\* onMessage 'setSpeed': this.speed = message.speed
SetSpeed(s) ==
  /\ LoopIdle
  /\ speed' = s
  /\ out' = <<Ev("setSpeed", 0)>>
  /\ UNCHANGED speedRest

\* The whole program: every handler, callback and continuation the page runs,
\* the speed handlers among them, over a route of two points. (flashTransition
\* and CacheManager.clear have no caller in the program: NextFlash, NextClear.)
NextSpeed ==
  \/ \E points \in SpeedRoutes : SetRoute(points)
  \/ Play
  \/ Pause
  \/ Stop
  \/ \E frames \in SkipFrames : Skip(frames)
  \/ \E e \in BOOLEAN, a \in BOOLEAN : UpdateSettings(e, a)
  \/ \E held \in BOOLEAN : Tick(held)
  \/ FlightStep
  \/ MicroPov
  \/ MicroResume
  \/ \E f \in BagToSet(fetches) : FetchResolved(f)
  \/ \E f \in BagToSet(fetches) : FetchTiles(f)
  \/ SpeedUp
  \/ SlowDown
  \/ \E s \in SpeedInputs : SetSpeed(s)

SpecSpeed == Init /\ [][NextSpeed]_vars

\* The "schedule" events among the events of a step.
IsSchedule(e) == e.ev = "schedule"
Schedules(o) == SelectSeq(o, IsSchedule)

\* C29: starting from one of the four profiles, faster / slower moves exactly
\* one step along walking, cycling, driving, flying and stops at the ends; the
\* change touches no timer, so a tick already scheduled keeps its interval,
\* and every tick scheduled afterwards waits the interval of the speed that
\* is selected when it is scheduled.
C29_SpeedStepsAndNextTick ==
  [][/\ (SpeedUp /\ speed \in Range(SpeedOrder)) =>
          /\ speed' = SpeedOrder[IF indexOf(speed) = 3 THEN 4 ELSE indexOf(speed) + 2]
          /\ UNCHANGED <<playbackTimer, orphanTicks>>
     /\ (SlowDown /\ speed \in Range(SpeedOrder)) =>
          /\ speed' = SpeedOrder[IF indexOf(speed) = 0 THEN 1 ELSE indexOf(speed)]
          /\ UNCHANGED <<playbackTimer, orphanTicks>>
     /\ (MicroResume /\ speed \in Range(SpeedOrder)) =>
          \A i \in 1..Len(Schedules(out')) :
             Schedules(out')[i].arg = speeds[speed]]_vars

\* A tick was scheduled at the flying interval after the speed was raised
\* to the top of the list during playback.
C29_Witness ==
  /\ speed = "flying"
  /\ playbackTimer = "pending"
  /\ out = <<Ev("progress", getProgress(currentIndex)), Ev("schedule", 250)>>

\* C30 (original statement): the speed is always one of walking, cycling,
\* driving, flying.
C30_SpeedIsAProfile == speed \in Range(SpeedOrder)

----------------------------------------------------------------------------
(* C31 *)

\* An enabled transition whose waitForLoad gave false (the 2000 ms timeout).
TimedOut(f) == f.load = "timeout"

\* C31: a transition whose load wait timed out still proceeds: its next step hides
\* both overlays and keeps the transition going, its last step returns true, and
\* an advance cycle that gets true advances the cursor.
C31_TimeoutProceeds ==
  [][/\ \A i \in 1..Len(flights) :
          /\ (FlightRender(i) /\ TimedOut(flights[i])) =>
               /\ overlayOpacity' = "0" /\ imageOpacity' = "0"
               /\ Len(flights') = Len(flights)
               /\ LastOut'.ev = "hide"
          /\ (FlightDone(i) /\ TimedOut(flights[i])) =>
               /\ LastOut' = Ev("return", 1)
               /\ flights[i].caller = "advance" =>
                    (micro' # <<>> /\ micro'[Len(micro')].result = "true")
     /\ (MicroResume /\ Head(micro).result = "true") =>
          currentIndex' = advance(currentIndex)]_vars

\* The load wait of an advance cycle's transition timed out, and the transition
\* went on to hide its overlay.
C31_Witness ==
  /\ Len(flights) = 1
  /\ TimedOut(flights[1])
  /\ flights[1].caller = "advance"
  /\ flights[1].pc = "fade"
  /\ overlayOpacity = "0"
  /\ imageOpacity = "0"
  /\ HasNext(currentIndex)

(* C32 *)

\* A direct move is about to run its second half (after `await setPosition`).
DirectPov == micro # <<>> /\ Head(micro).op = "pov"

\* C32: a transitionTo call made while transitions are disabled and the engine
\* is Idle commands the position, then the heading if one is given, and returns
\* true; no step of the call changes an overlay opacity or the InProgress flag.
C32_DirectMoveReturnsTrue ==
  [][/\ (CallsTransitionTo /\ ~enabled /\ ~isTransitioning) =>
          /\ Len(out') = 1 /\ out'[1].ev = "setPosition"
          /\ viewerPos' = out'[1].arg
          /\ DirectPov'
          /\ UNCHANGED <<isTransitioning, overlayOpacity, imageOpacity, flights>>
     /\ DirectPov =>
          /\ LastOut' = Ev("return", 1)
          /\ (Head(micro).heading # NoHeading) =>
               out'[1] = Ev("setPov", Head(micro).heading)
          /\ UNCHANGED <<isTransitioning, overlayOpacity, imageOpacity, flights>>]_vars

(* C33 *)

\* One of the two overlays is showing.
OverlayShown == overlayOpacity # "0" \/ imageOpacity # "0"

\* The position of the first event named e among the events o, 0 if there is none.
FirstOf(o, e) ==
  IF \E k \in 1..Len(o) : o[k].ev = e
  THEN CHOOSE k \in 1..Len(o) : o[k].ev = e /\ \A j \in 1..(k - 1) : o[j].ev # e
  ELSE 0

\* C33: an enabled transition goes through its events in the order overlay
\* revealed, position commanded, heading commanded (if given), load wait
\* settled, overlay hidden: a transition that waits its first delay has a shown
\* overlay and nothing commanded; the position is commanded in a step that
\* starts and (unless a later command throws) ends with an overlay shown, the
\* heading after the position; the load wait settles only after the commands,
\* with the overlay still shown; the overlay is hidden only after the load wait
\* settled. No step commands the position of a transition in progress while
\* both overlays are hidden.
C33_OrderedBehindOverlay ==
  /\ [](\A i \in 1..Len(flights) :
          /\ flights[i].pc \in {"delay50", "waitLoad", "delay100"} => OverlayShown
          /\ flights[i].pc \in {"waitLoad", "delay100", "fade"} =>
               viewerPos = flights[i].target
          /\ flights[i].pc \in {"delay50", "waitLoad"} <=> flights[i].load = ""
          /\ flights[i].pc = "fade" => ~OverlayShown)
  /\ [][/\ (isTransitioning /\ FirstOf(out', "setPosition") > 0) => OverlayShown
        /\ \A i \in 1..Len(flights) :
             /\ FlightMove(i) =>
                  /\ flights[i].pc = "delay50"
                  /\ FirstOf(out', "setPov") > 0 =>
                       /\ FirstOf(out', "setPosition") > 0
                       /\ FirstOf(out', "setPosition") < FirstOf(out', "setPov")
                       /\ out'[FirstOf(out', "setPov")].arg = flights[i].heading
                  /\ (LastOut'.ev # "return") =>
                       /\ OverlayShown'
                       /\ FirstOf(out', "setPosition") > 0
                       /\ (flights[i].heading # NoHeading) => FirstOf(out', "setPov") > 0
             /\ FlightLoaded(i) => (OverlayShown /\ OverlayShown')
             /\ FlightRender(i) => (flights[i].load # "" /\ ~OverlayShown')]_vars

\* Behind the fallback overlay the position and then the heading were commanded;
\* the transition now waits for the viewer to load.
C33_Witness ==
  /\ Len(flights) = 1
  /\ flights[1].pc = "waitLoad"
  /\ flights[1].heading # NoHeading
  /\ overlayOpacity = fadeOpacity
  /\ imageOpacity = "0"
  /\ out = <<Ev("setPosition", flights[1].target), Ev("setPov", flights[1].heading)>>

----------------------------------------------------------------------------
(***************************************************************************)
(* GeoUtils: pure functions, applied to inputs drawn from bounded sets.    *)
(***************************************************************************)

\* Largest magnitude of the headings normalizeHeadingDiff is given, in degrees.
MaxHeading == 360
\* Longest string decodePolyline is given.
MaxPolyLen == 4

\* while (diff > 180) diff -= 360
RECURSIVE whileAbove(_)
whileAbove(diff) == IF diff > 180 THEN whileAbove(diff - 360) ELSE diff

\* while (diff < -180) diff += 360
RECURSIVE whileBelow(_)
whileBelow(diff) == IF diff < 0 - 180 THEN whileBelow(diff + 360) ELSE diff

normalizeHeadingDiffRaw(from, to) == to - from
normalizeHeadingDiff(from, to) == whileBelow(whileAbove(to - from))

Headings == (0 - MaxHeading)..MaxHeading

geoRest == <<routeVars, playVars, engineVars, viewerPos, cacheVars, micro>>

\* The controller after init(), about to call normalizeHeadingDiff(from, to).
InitHeading ==
  /\ waypoints = <<>>
  /\ waypointKeys = <<>>
  /\ currentIndex = 0
  /\ isPlaying = FALSE
  /\ isPaused = FALSE
  /\ playbackTimer = "null"
  /\ orphanTicks = 0
  /\ autoHeading = TRUE
  /\ speed = "cycling"
  /\ isTransitioning = FALSE
  /\ enabled = TRUE
  /\ overlayOpacity = "0"
  /\ imageOpacity = "0"
  /\ flights = <<>>
  /\ flashes = <<>>
  /\ viewerPos = NoPos
  /\ cached = <<>>
  /\ loading = {}
  /\ fetches = EmptyBag
  /\ micro = <<>>
  /\ \E from \in Headings, to \in Headings : out = <<Ev("from", from), Ev("to", to)>>

NormalizeHeadingDiff ==
  /\ Len(out) = 2
  /\ out[1].ev = "from"
  /\ out' = Append(out, Ev("return", normalizeHeadingDiff(out[1].arg, out[2].arg)))
  /\ UNCHANGED geoRest

\* normalizeHeadingDiff has just returned.
Normalized == Len(out) = 3 /\ out[1].ev = "from"

NextHeading == NormalizeHeadingDiff

SpecHeading == InitHeading /\ [][NextHeading]_vars

(* C34 *)

\* C34: normalizeHeadingDiff(from, to) returns d with -180 <= d <= 180 and
\* d = to - from modulo 360; (350, 10) gives 20 and (10, 350) gives -20.
C34_ShortestSignedDiff ==
  Normalized =>
    LET from == out[1].arg
        to == out[2].arg
        d == out[3].arg
    IN  /\ d >= 0 - 180 /\ d <= 180
        /\ (d - (to - from)) % 360 = 0
        /\ (from = 350 /\ to = 10) => d = 20
        /\ (from = 10 /\ to = 350) => d = 0 - 20

\* The difference 340 - (-350) = 690 was brought back by two turns.
C34_Witness ==
  out = <<Ev("from", 0 - 350), Ev("to", 340), Ev("return", 0 - 30)>>

----------------------------------------------------------------------------
(* GeoUtils.decodePolyline.  A string is the sequence of its char codes; a    *)
(* decoded point is its pair of accumulated deltas, in units of 1e-5 degree   *)
(* (the code divides both by 1e5 as it pushes the point).                     *)

\* encoded.charCodeAt(index), index counted from 0
charCodeAt(encoded, index) ==
  IF index < Len(encoded) THEN encoded[index + 1] ELSE NaN

\* a | b for non-negative a, b below 2^n
RECURSIVE orBits(_, _, _)
orBits(a, b, n) ==
  IF n = 0 THEN 0
  ELSE (IF a % 2 = 1 \/ b % 2 = 1 THEN 1 ELSE 0) + 2 * orBits(a \div 2, b \div 2, n - 1)

\* byte & 0x1f for byte = code - 63: the low five bits in two's complement,
\* 0 for NaN
low5(code) == IF code = NaN THEN 0 ELSE (code - 63) % 32

\* The do-while loop: one varint read from index on. A string of at most
\* MaxPolyLen characters keeps shift below 30 and result below 2^30, so that
\* `<<` and `|` do not reach the sign bit.
RECURSIVE readVarint(_, _, _, _)
readVarint(encoded, index, shift, result) ==
  LET code == charCodeAt(encoded, index)
      byte == code - 63
      next == orBits(result, low5(code) * 2 ^ shift, 30)
  IN  IF code # NaN /\ byte >= 32
      THEN readVarint(encoded, index + 1, shift + 5, next)
      ELSE [result |-> next, index |-> index + 1]

\* (result & 1) ? ~(result >> 1) : (result >> 1)
delta(result) ==
  IF result % 2 = 1 THEN 0 - (result \div 2) - 1 ELSE result \div 2

\* The outer while loop from index on.
RECURSIVE decodeFrom(_, _, _, _, _)
decodeFrom(encoded, index, lat, lng, points) ==
  IF index >= Len(encoded) THEN points
  ELSE LET a == readVarint(encoded, index, 0, 0)
           b == readVarint(encoded, a.index, 0, 0)
           lat2 == lat + delta(a.result)
           lng2 == lng + delta(b.result)
       IN  decodeFrom(encoded, b.index, lat2, lng2,
                      Append(points, [lat |-> lat2, lng |-> lng2]))

decodePolyline(encoded) == decodeFrom(encoded, 0, 0, 0, <<>>)

\* The char codes of the input strings: ' ' (below the alphabet), '?' (0),
\* '@' (1), 'A' (2), '_' and '`' (continuation chunks 0 and 1).
PolyChars == {32, 63, 64, 65, 95, 96}

RECURSIVE StringsOf(_)
StringsOf(n) ==
  IF n = 0 THEN {<<>>}
  ELSE StringsOf(n - 1) \cup
       {Append(e, c) : e \in {x \in StringsOf(n - 1) : Len(x) = n - 1}, c \in PolyChars}

\* The controller after init(), about to call decodePolyline(encoded).
InitPolyline ==
  /\ waypoints = <<>>
  /\ waypointKeys = <<>>
  /\ currentIndex = 0
  /\ isPlaying = FALSE
  /\ isPaused = FALSE
  /\ playbackTimer = "null"
  /\ orphanTicks = 0
  /\ autoHeading = TRUE
  /\ speed = "cycling"
  /\ isTransitioning = FALSE
  /\ enabled = TRUE
  /\ overlayOpacity = "0"
  /\ imageOpacity = "0"
  /\ flights = <<>>
  /\ flashes = <<>>
  /\ viewerPos = NoPos
  /\ cached = <<>>
  /\ loading = {}
  /\ fetches = EmptyBag
  /\ micro = <<>>
  /\ \E encoded \in StringsOf(MaxPolyLen) : out = <<Ev("encoded", encoded)>>

DecodePolyline ==
  /\ Len(out) = 1
  /\ out[1].ev = "encoded"
  /\ out' = Append(out, Ev("return", decodePolyline(out[1].arg)))
  /\ UNCHANGED geoRest

NextPolyline == DecodePolyline

SpecPolyline == InitPolyline /\ [][NextPolyline]_vars

\* decodePolyline has just returned.
Decoded == Len(out) = 2 /\ out[1].ev = "encoded"

\* A chunk that announces a further chunk of its varint.
Continues(code) == code - 63 >= 32

\* The varints that are complete in the string.
Varints(encoded) == Cardinality({i \in 1..Len(encoded) : ~Continues(encoded[i])})

\* Not a polyline: a character outside '?'..'~', a last varint that is cut off,
\* or a latitude without its longitude.
Malformed(encoded) ==
  \/ \E i \in 1..Len(encoded) : encoded[i] \notin 63..126
  \/ Len(encoded) > 0 /\ Continues(encoded[Len(encoded)])
  \/ Varints(encoded) % 2 = 1

(* C35 *)

\* C35: decodePolyline returns on every input string, and what it returns for a
\* malformed input is the empty sequence.
C35_MalformedGivesEmpty ==
  (Decoded /\ Malformed(out[1].arg)) => out[2].arg = <<>>

----------------------------------------------------------------------------
(* C36 *)

\* The keys of the points of the routes that are played.
FetchKeys == UNION {Range(routeKeys(points)) : points \in InputRoutes}

\* C36: every key that enters the loading set eventually leaves it; it leaves it
\* in the step that settles its fetch, found or not found or failed, and is then
\* cached or absent from both sets.
C36_LoadingDrains ==
  /\ \A key \in FetchKeys : (key \in loading) ~> (key \notin loading)
  /\ [][\A key \in loading :
          key \notin loading' =>
            /\ FetchesOf(key) = 1 /\ FetchesOf(key)' = 0
            /\ LastOut'.ev \in {"tiles", "noPano", "precacheFailed"}]_vars

----------------------------------------------------------------------------
(* C37 *)

\* C37: at most one advance-cycle chain is active: the pending scheduled ticks
\* and the running advance cycles number one at most.
C37_SingleChain == Chains <= 1

(* C38 *)

\* A step that moves the cursor on request: skip (and through it jumpTo) or
\* setRoute.
CursorRequest ==
  \/ \E frames \in SkipFrames : Skip(frames)
  \/ \E points \in InputRoutes : SetRoute(points)

\* C38: stop() leaves the cursor at 0, and as long as the state stays Stopped no
\* step other than a skip, jump or setRoute moves the cursor away from 0.
C38_StoppedCursorStays ==
  [][/\ Stop => currentIndex' = 0
     /\ (Stopped /\ Stopped' /\ currentIndex = 0 /\ ~CursorRequest) =>
          currentIndex' = 0]_vars

----------------------------------------------------------------------------
(* C39 *)

\* Most fetches in flight at a call of clear().
MaxInFlightAtClear == 2

\* CacheManager.clear(): both sets are emptied; the precachePoint activations that
\* are suspended stay suspended.
CacheClear ==
  /\ LoopIdle
  /\ BagCardinality(fetches) <= MaxInFlightAtClear
  /\ cached' = <<>>
  /\ loading' = {}
  /\ out' = <<Ev("clear", 0)>>
  /\ UNCHANGED <<routeVars, playVars, engineVars, viewerPos, fetches, micro>>

NextClear ==
  \/ NextCache
  \/ CacheClear

SpecClear == Init /\ [][NextClear]_vars

\* The keys that have a fetch in flight.
InFlightKeys == {f.key : f \in BagToSet(fetches)}

\* C39: in every state the loading set is exactly the set of the keys that have
\* a fetch in flight, whatever the interleaving of precacheRoute, clear() and
\* fetch completions.
C39_LoadingIsInFlight == loading = InFlightKeys

----------------------------------------------------------------------------
(* C40 *)

\* C40: playback never stalls: in every state where playback is Playing a
\* scheduled tick is pending or an advance cycle is running.
C40_NeverStalls == Playing => Chains >= 1

----------------------------------------------------------------------------
(***************************************************************************)
(* TransitionEngine.flashTransition: a public method that no handler of    *)
(* the controller calls; like RouteManager.goBack and CacheManager.clear   *)
(* it has its actions outside Next, in a specification of its own.         *)
(***************************************************************************)

\* Most flashTransition activations suspended at once.
MaxFlashes == 2

\* The opacity flashTransition gives the fallback overlay
flashOpacity == "0.5"

\* flashTransition from its call to `await delay(100)`; isTransitioning is
\* neither tested nor set.
FlashTransition ==
  /\ LoopIdle
  /\ Len(flashes) < MaxFlashes
  /\ overlayOpacity' = flashOpacity
  /\ flashes' = Append(flashes, "delay100")
  /\ out' = <<Ev("reveal", 0)>>
  /\ UNCHANGED <<routeVars, playVars, isTransitioning, enabled, imageOpacity,
                 flights, viewerPos, cacheVars, micro>>

\* The first delay(100) elapsed: the overlay is faded out, then await delay(100).
FlashFade(i) ==
  /\ LoopIdle
  /\ i \in 1..Len(flashes)
  /\ flashes[i] = "delay100"
  /\ overlayOpacity' = "0"
  /\ flashes' = [flashes EXCEPT ![i] = "fade"]
  /\ out' = <<Ev("hide", 0)>>
  /\ UNCHANGED <<routeVars, playVars, isTransitioning, enabled, imageOpacity,
                 flights, viewerPos, cacheVars, micro>>

\* The second delay(100) elapsed: the CSS transition is restored, the call ends.
FlashDone(i) ==
  /\ LoopIdle
  /\ i \in 1..Len(flashes)
  /\ flashes[i] = "fade"
  /\ flashes' = RemoveAt(flashes, i)
  /\ out' = <<>>
  /\ UNCHANGED <<routeVars, playVars, isTransitioning, enabled, overlayOpacity,
                 imageOpacity, flights, viewerPos, cacheVars, micro>>

NextFlash ==
  \/ \E points \in InputRoutes : SetRoute(points)
  \/ \E frames \in SkipFrames : Skip(frames)
  \/ \E e \in BOOLEAN, a \in BOOLEAN : UpdateSettings(e, a)
  \/ FlightStep
  \/ MicroPov
  \/ FlashTransition
  \/ \E i \in 1..Len(flashes) : FlashFade(i)
  \/ \E i \in 1..Len(flashes) : FlashDone(i)

SpecFlash == Init /\ [][NextFlash]_vars

====
